---------------------------- MODULE Spec2Model ----------------------------
(***************************************************************************)
(* Brute-force portfolio search of arieltl/PortfolioOptimization:          *)
(* utils.py (returns, weight sampler, metrics, per-combination best) and   *)
(* portfolio_optimizer.py (sequential path, chunked parallel path).        *)
(*                                                                         *)
(* Numbers.  Prices are positive integers.  A daily return is kept in      *)
(* quarters (4 * pct_change), a weight as the raw draw over its row sum    *)
(* (num/den), a Sharpe ratio as the exact value of return/volatility up to *)
(* the positive factor common to every portfolio of one run (252, the     *)
(* number of return rows, the return unit), which changes neither the      *)
(* order of two Sharpe ratios nor whether one is NaN or infinite.          *)
(***************************************************************************)
EXTENDS Integers, Sequences, FiniteSets, TLC

VARIABLES
    prices,         \* the price DataFrame: a sequence of rows, each [1..n_stocks -> price]
    n_stocks,       \* number of columns of prices
    n_select,       \* optimize_portfolio*'s n_select
    n_simulations,  \* optimize_portfolio*'s n_simulations
    n_workers,      \* optimize_portfolio's n_workers
    chunk_size,     \* optimize_portfolio's chunk_size argument, 0 for None
    seed,           \* state np.random.seed leaves the global generator in
    seq,            \* optimize_portfolio_sequential: its locals and outcome
    dist,           \* optimize_portfolio: the distributor's position
    par,            \* optimize_portfolio: its locals and outcome
    workers,        \* the Pool's worker processes
    chunk_results,  \* pool.map's result slots, one per chunk
    evals,          \* history: what each combination's evaluation gave, per path
    plan            \* chunk planning on its own (SpecChunk)

vars == <<prices, n_stocks, n_select, n_simulations, n_workers, chunk_size, seed,
          seq, dist, par, workers, chunk_results, evals, plan>>

(***************************************************************************)
(* Bounds of the model                                                     *)
(***************************************************************************)
\* Depth at which the interpreter raises RecursionError (sys.getrecursionlimit()
\* is 1000 by default; the model keeps the mechanism and shortens the depth).
RecursionLimit == 3
\* Largest n_workers tried.
MaxWorkers == 2

(***************************************************************************)
(* Program constants                                                       *)
(***************************************************************************)
Multiplier == 3
MaxTargetWeights == 10000
ChunksPerWorker == 4
MaxChunkSize == 250
MaxTasksPerChild == 100
\* The cap 0.2 of utils.py:101 as a fraction: w <= 0.2 iff CapDen * num <= CapNum * den.
CapNum == 1
CapDen == 5

(***************************************************************************)
(* Arithmetic helpers                                                      *)
(***************************************************************************)
Min(a, b) == IF a <= b THEN a ELSE b
Max(a, b) == IF a >= b THEN a ELSE b

RECURSIVE Gcd(_, _)
Gcd(a, b) == IF b = 0 THEN a ELSE Gcd(b, a % b)

\* f[1] + ... + f[n]
RECURSIVE SumTo(_, _)
SumTo(f, n) == IF n = 0 THEN 0 ELSE f[n] + SumTo(f, n - 1)

(***************************************************************************)
(* IEEE doubles as far as the program uses them: a value is NaN, +inf,     *)
(* -inf or finite.  A finite Sharpe ratio sgn * sqrt(num/den) is kept in   *)
(* lowest terms, so that equal values are equal records.                   *)
(***************************************************************************)
NaN == [cls |-> "nan", sgn |-> 0, num |-> 0, den |-> 1]
PInf == [cls |-> "inf", sgn |-> 1, num |-> 1, den |-> 0]
NInf == [cls |-> "inf", sgn |-> -1, num |-> 1, den |-> 0]
Fin(n, v) ==
    LET g == Gcd(n * n, v)
    IN  IF n = 0 THEN [cls |-> "fin", sgn |-> 0, num |-> 0, den |-> 1]
        ELSE [cls |-> "fin", sgn |-> IF n > 0 THEN 1 ELSE -1,
              num |-> (n * n) \div g, den |-> v \div g]

IsNaN(x) == x.cls = "nan"
IsFinite(x) == x.cls = "fin"

\* x > y on doubles: false as soon as one side is NaN.
FloatGT(x, y) ==
    IF IsNaN(x) \/ IsNaN(y) THEN FALSE
    ELSE IF x.cls = "inf" /\ y.cls = "inf" THEN x.sgn > y.sgn
    ELSE IF x.cls = "inf" THEN x.sgn > 0
    ELSE IF y.cls = "inf" THEN y.sgn < 0
    ELSE IF x.sgn # y.sgn THEN x.sgn > y.sgn
    ELSE IF x.sgn >= 0 THEN x.num * y.den > y.num * x.den
    ELSE x.num * y.den < y.num * x.den

\* x == y on doubles: NaN equals nothing, itself included.
FloatEQ(x, y) == ~IsNaN(x) /\ ~IsNaN(y) /\ x = y
FloatGE(x, y) == FloatGT(x, y) \/ FloatEQ(x, y)

\* numerator / sqrt(radicand), the division of utils.py:40 on doubles.
FloatRatio(n, v) ==
    IF v = 0 THEN (IF n > 0 THEN PInf ELSE IF n < 0 THEN NInf ELSE NaN)
    ELSE Fin(n, v)

(***************************************************************************)
(* utils.py: daily returns                                                 *)
(***************************************************************************)
\* One cell of DataFrame.pct_change: (b - a) / a, in quarters.  Exact for the
\* prices of Series (1, 2 and 4), each of which divides 4.
PctChange(a, b) == ((b - a) * 4) \div a

\* prices.pct_change().dropna(): the first row of pct_change is NaN and is the one
\* dropna drops; nothing is raised for a frame of one row or none, which gives
\* the frame with no row.
calculate_daily_returns(p) ==
    IF Len(p) < 2 THEN <<>>
    ELSE [t \in 1..(Len(p) - 1) |->
            [i \in DOMAIN p[t] |-> PctChange(p[t][i], p[t + 1][i])]]

(***************************************************************************)
(* utils.py: combinations                                                  *)
(***************************************************************************)
\* itertools.combinations(all_stocks, n_select), in its order.
RECURSIVE get_stock_combinations(_, _)
get_stock_combinations(all_stocks, k) ==
    IF k = 0 THEN << <<>> >>
    ELSE IF Len(all_stocks) < k THEN <<>>
    ELSE LET Join(with, without) ==
                 [j \in 1..Len(with) |-> <<Head(all_stocks)>> \o with[j]] \o without
         IN  CHOOSE combinations \in
                 { Join(with, without) :
                     with \in { get_stock_combinations(Tail(all_stocks), k - 1) },
                     without \in { get_stock_combinations(Tail(all_stocks), k) } } :
                 TRUE

(***************************************************************************)
(* utils.py: the weight sampler                                            *)
(***************************************************************************)
\* The global generator of numpy.random, as a deterministic machine: a state,
\* an output per state, a successor.  One output is one candidate row.  The
\* cycle holds three rows that can pass the cap followed by a run of rows that
\* cannot, long enough to last a whole recursion of generate_valid_weights.
RngPeriod == 3 + Multiplier * RecursionLimit
RngOut(s) ==
    IF s = 0 THEN "flat" ELSE IF s = 1 THEN "tilt" ELSE IF s = 2 THEN "zero" ELSE "spike"
RngNext(s, k) == (s + k) % RngPeriod

\* The raw row of n draws of each kind, in units of the smallest draw.
RawRow(kind, n) ==
    [i \in 1..n |->
        CASE kind = "flat" -> 1
          [] kind = "tilt" -> (IF i <= 4 THEN 2 ELSE 1)
          [] kind = "zero" -> (IF i = n THEN 0 ELSE 1)
          [] OTHER -> (IF i = 1 THEN 3 ELSE 1)]

\* utils.py:96-97
TargetWeights(n_sims) == Min(n_sims * Multiplier, MaxTargetWeights)

\* utils.py:99, row j of np.random.random((target_weights, n_assets)) drawn at
\* state rng
RandomRow(rng, j, n) == RawRow(RngOut(RngNext(rng, j - 1)), n)

\* utils.py:100, one row divided by its sum
Normalize(row) ==
    CHOOSE w \in { [num |-> raw, den |-> SumTo(raw, Len(raw))] : raw \in {row} } : TRUE

\* A filter that keeps every row of positive sum, whatever its entries.
WithinCapLoose(w) == w.den > 0

\* utils.py:101, np.all(weights <= 0.2, axis=1) for one row; a row of sum 0
\* is a row of NaN, and NaN <= 0.2 is false
WithinCap(w) ==
    /\ w.den > 0
    /\ \A i \in 1..Len(w.num) : CapDen * w.num[i] <= CapNum * w.den

\* utils.py:99-102
ValidWeights(rng, target, n) ==
    LET weights == [j \in 1..target |-> Normalize(RandomRow(rng, j, n))]
    IN  SelectSeq(weights, WithinCap)

\* utils.py:105, the test that sends generate_valid_weights into itself
NotEnough(valid, n_sims) == Len(valid) < n_sims

\* A return of every row that passed, however many.
TakeAll(valid, n_sims) == valid

\* utils.py:109
TakeExactly(valid, n_sims) == SubSeq(valid, 1, n_sims)

(***************************************************************************)
(* utils.py: metrics                                                       *)
(***************************************************************************)
\* returns_array[:, column_indices] (portfolio_optimizer.py:21)
SelectColumns(returns_array, column_indices) ==
    [t \in 1..Len(returns_array) |->
        [j \in 1..Len(column_indices) |-> returns_array[t][column_indices[j]]]]

\* Sum over the rows of column i: np.mean(., axis=0) times the number of rows.
ColSum(R, i) == SumTo([t \in 1..Len(R) |-> R[t][i]], Len(R))

\* Entry (i, j) of np.cov(R.T) times T * (T - 1), T the number of rows.
CovNum(R, i, j) ==
    Len(R) * SumTo([t \in 1..Len(R) |-> R[t][i] * R[t][j]], Len(R))
        - ColSum(R, i) * ColSum(R, j)

\* utils.py:32-40 for one weight vector w of the batch, from the column sums, the
\* covariance numerators and the number T of return rows.  np.mean of no row is
\* NaN; np.cov of fewer than two rows is NaN (zero degrees of freedom); neither
\* raises.
PortfolioMetrics(mean_returns, cov_matrix, T, w) ==
    LET k == Len(w.num)
        retNum == SumTo([i \in 1..k |-> w.num[i] * mean_returns[i]], k)
        varNum == SumTo([i \in 1..k |->
                     SumTo([j \in 1..k |-> w.num[i] * w.num[j] * cov_matrix[i][j]], k)], k)
    IN  IF T < 2
        THEN [sharpe |-> NaN,
              ret |-> IF T = 0 THEN [cls |-> "nan", num |-> 0, den |-> 1]
                      ELSE [cls |-> "fin", num |-> retNum, den |-> w.den],
              vol |-> [cls |-> "nan", num |-> 0, den |-> 1]]
        ELSE [sharpe |-> FloatRatio(retNum, varNum),
              ret |-> [cls |-> "fin", num |-> retNum, den |-> w.den],
              vol |-> [cls |-> "fin", num |-> varNum, den |-> w.den]]

\* utils.py:17-42; k is the number of columns of R.  The means and the covariance
\* matrix are computed once (x \in {e} names the value of e) and used for the
\* whole batch.
calculate_portfolio_metrics_vectorized(R, weights_batch, k) ==
    LET Batch(mean_returns, cov_matrix) ==
            [p \in 1..Len(weights_batch) |->
                PortfolioMetrics(mean_returns, cov_matrix, Len(R), weights_batch[p])]
    IN  CHOOSE metrics \in
            { Batch(mean_returns, cov_matrix) :
                mean_returns \in { [i \in 1..k |-> ColSum(R, i)] },
                cov_matrix \in { [i \in 1..k |-> [j \in 1..k |-> CovNum(R, i, j)]] } } :
            TRUE

\* np.argmax over doubles: the first NaN if there is one, else the first maximum.
ArgMax(xs) ==
    IF \E i \in 1..Len(xs) : IsNaN(xs[i])
    THEN CHOOSE i \in 1..Len(xs) :
            IsNaN(xs[i]) /\ \A j \in 1..(i - 1) : ~IsNaN(xs[j])
    ELSE CHOOSE i \in 1..Len(xs) :
            /\ \A j \in 1..Len(xs) : ~FloatGT(xs[j], xs[i])
            /\ \A j \in 1..(i - 1) : FloatGT(xs[i], xs[j])

\* utils.py:139-162
find_best_portfolio_from_batch(R, weights_batch, combination) ==
    LET Best(m, best_idx) ==
            [stocks |-> combination,
             weights |-> weights_batch[best_idx],
             sharpe_ratio |-> m[best_idx].sharpe,
             annual_return |-> m[best_idx].ret,
             annual_volatility |-> m[best_idx].vol]
    IN  CHOOSE best \in
            { Best(m, ArgMax([p \in 1..Len(m) |-> m[p].sharpe])) :
                m \in { calculate_portfolio_metrics_vectorized(R, weights_batch,
                                                                Len(combination)) } } :
            TRUE

(***************************************************************************)
(* portfolio_optimizer.py: one combination                                 *)
(***************************************************************************)
NoRecord ==
    [stocks |-> <<>>, weights |-> [num |-> <<>>, den |-> 0], sharpe_ratio |-> NaN,
     annual_return |-> [cls |-> "nan", num |-> 0, den |-> 1],
     annual_volatility |-> [cls |-> "nan", num |-> 0, den |-> 1]]
NoCall == [n_assets |-> 0, n_sims |-> 0, rng |-> 0, batch |-> <<>>]

\* The interpreter raises RecursionError when a call would exceed its limit.
RecursionError(depth) == depth >= RecursionLimit

\* An interpreter without a recursion limit: the call always calls itself.
OnNotEnoughRetry(depth) == "retry"

\* A call of generate_valid_weights that has too few rows calls itself
\* (utils.py:105-106, "retry"); at the interpreter's limit the call raises
\* instead, process_stock_combination catches it and returns None
\* (portfolio_optimizer.py:28-30, "none").
OnNotEnough(depth) == IF RecursionError(depth) THEN "none" ELSE "retry"

\* portfolio_optimizer.py:12-30, one frame of generate_valid_weights at a time:
\* with the generator at state rng and the recursion at `depth`, the call either
\* returns a record ("record"), recurses ("retry", utils.py:106), or ends in the
\* except clause of line 28 with None ("none").
process_stock_combination(combination, returns_array, column_indices, n_sims, rng, depth) ==
    LET target == TargetWeights(n_sims)
        after == RngNext(rng, target)
        Outcome(selected_returns, valid, weights_batch) ==
            IF NotEnough(valid, n_sims)
            THEN [kind |-> OnNotEnough(depth),
                  rec |-> NoRecord, rng |-> after, call |-> NoCall]
            ELSE [kind |-> "record",
                  rec |-> find_best_portfolio_from_batch(selected_returns, weights_batch,
                                                          combination),
                  rng |-> after,
                  call |-> [n_assets |-> Len(combination), n_sims |-> n_sims,
                            rng |-> rng, batch |-> weights_batch]]
    IN  CHOOSE outcome \in
            { Outcome(selected_returns, valid, TakeExactly(valid, n_sims)) :
                selected_returns \in { SelectColumns(returns_array, column_indices) },
                valid \in { ValidWeights(rng, target, Len(combination)) } } :
            TRUE

\* The state of a loop over combinations (portfolio_optimizer.py:39-50 and 136-147):
\* the combinations still to do, the list of results, the generator of the process
\* and the depth of the recursion in progress.
NewLoop(combinations, rng) ==
    [todo |-> combinations, results |-> <<>>, rng |-> rng, depth |-> 1, call |-> NoCall]

\* A loop that a failed evaluation ends: the combinations after it are dropped.
LoopBodyBreak(ev, r) ==
    CASE r.kind = "retry" ->
            [ev EXCEPT !.rng = r.rng, !.depth = Min(@ + 1, RecursionLimit)]
      [] r.kind = "record" ->
            [ev EXCEPT !.todo = Tail(@), !.results = Append(@, r.rec), !.rng = r.rng,
                       !.depth = 1, !.call = r.call]
      [] OTHER ->
            [ev EXCEPT !.todo = <<>>, !.rng = r.rng, !.depth = 1]

\* What the loop body does with the value of process_stock_combination: a record
\* is appended (lines 46-47), None is skipped, an exception is caught (line 48).
LoopBody(ev, r) ==
    CASE r.kind = "retry" ->
            [ev EXCEPT !.rng = r.rng, !.depth = Min(@ + 1, RecursionLimit)]
      [] r.kind = "record" ->
            [ev EXCEPT !.todo = Tail(@), !.results = Append(@, r.rec), !.rng = r.rng,
                       !.depth = 1, !.call = r.call]
      [] OTHER ->
            [ev EXCEPT !.todo = Tail(@), !.rng = r.rng, !.depth = 1]

\* One step of the loop on its first combination still to do.
LoopStep(ev, returns_array, column_map, n_sims) ==
    LET combination == Head(ev.todo)
        indices == [j \in 1..Len(combination) |-> column_map[combination[j]]]
    IN  process_stock_combination(combination, returns_array, indices, n_sims,
                                  ev.rng, ev.depth)

(***************************************************************************)
(* portfolio_optimizer.py: reduction                                       *)
(***************************************************************************)
\* max(results, key=lambda x: x['sharpe_ratio']): the first element, replaced by
\* each later one whose key compares greater.
RECURSIVE MaxFrom(_, _, _)
MaxFrom(results, i, best) ==
    IF i > Len(results) THEN best
    ELSE CHOOSE m \in
             { MaxFrom(results, i + 1, kept) :
                 kept \in { IF FloatGT(results[i].sharpe_ratio, best.sharpe_ratio)
                            THEN results[i] ELSE best } } :
             TRUE
PyMax(results) == MaxFrom(results, 2, results[1])

NoOutcome == [kind |-> "none", rec |-> NoRecord]

\* A reduction without the test for an empty list.
ReduceUnchecked(results) ==
    [kind |-> "record", rec |-> IF results = <<>> THEN NoRecord ELSE PyMax(results)]

\* portfolio_optimizer.py:105-111 and 149-155
Reduce(results) ==
    IF results = <<>> THEN [kind |-> "ValueError", rec |-> NoRecord]
    ELSE [kind |-> "record", rec |-> PyMax(results)]

\* A flattening that takes the chunks' lists last chunk first.
RECURSIVE FlattenReversed(_)
FlattenReversed(lists) ==
    IF lists = <<>> THEN <<>> ELSE FlattenReversed(Tail(lists)) \o Head(lists)

\* portfolio_optimizer.py:103
RECURSIVE Flatten(_)
Flatten(lists) == IF lists = <<>> THEN <<>> ELSE Head(lists) \o Flatten(Tail(lists))

(***************************************************************************)
(* portfolio_optimizer.py: chunking                                        *)
(***************************************************************************)
\* A chunk size without the chunks-per-worker factor.
ChunkSizePerWorker(given, total_combinations, nw) ==
    IF given = 0
    THEN Min(Max(1, total_combinations \div nw), MaxChunkSize)
    ELSE given

\* portfolio_optimizer.py:81-88; chunk_size 0 stands for None
ChunkSize(given, total_combinations, nw) ==
    IF given = 0
    THEN Min(Max(1, total_combinations \div (nw * ChunksPerWorker)), MaxChunkSize)
    ELSE given

\* portfolio_optimizer.py:92
NChunks(total_combinations, size) == Max(1, total_combinations \div size)

\* A split into sections of equal size, the remainder left out.
ArraySplitSizesEven(total, n) == [c \in 1..n |-> total \div n]

\* np.array_split(ary, n): the sizes of its sections, the first (total mod n) of
\* them one longer than the others.
ArraySplitSizes(total, n) ==
    [c \in 1..n |-> (total \div n) + (IF c <= total % n THEN 1 ELSE 0)]

\* np.array_split(combinations, n_chunks) (portfolio_optimizer.py:93)
ArraySplit(combinations, n) ==
    LET sizes == ArraySplitSizes(Len(combinations), n)
        start(c) == SumTo(sizes, c - 1)
    IN  [c \in 1..n |-> SubSeq(combinations, start(c) + 1, start(c) + sizes[c])]

(***************************************************************************)
(* Inputs                                                                  *)
(***************************************************************************)
Markets == {"flat", "growth", "mixed"}
RowCounts == {1, 3}
Seeds == {0, 1, 2}
\* <<number of stocks, n_select, n_simulations>>
Shapes ==
    { <<3, 2, 2>>, <<4, 2, 100>>, <<4, 6, 1>>, <<5, 5, 1>>, <<6, 6, 2>>, <<7, 6, 1>>,
      <<6, 6, MaxTargetWeights + 1>> }
ChunkSizes == {0, 3}

\* The closing prices of stock i: constant, doubling, or one of four paths.
Series(market, i) ==
    CASE market = "flat" -> <<1, 1, 1>>
      [] market = "growth" -> <<1, 2, 4>>
      [] OTHER -> CASE i % 4 = 0 -> <<1, 2, 2>>
                    [] i % 4 = 1 -> <<1, 1, 2>>
                    [] i % 4 = 2 -> <<2, 1, 2>>
                    [] OTHER -> <<2, 2, 1>>
PriceFrame(market, n, rows) ==
    [t \in 1..rows |-> [i \in 1..n |-> Series(market, i)[t]]]

Paths == {"seq", "par"}
AllStocks(n) == [i \in 1..n |-> i]
NoEval == [count |-> 0, kind |-> "none", rec |-> NoRecord]
NoPlan ==
    [done |-> FALSE, total |-> 0, nw |-> 1, given |-> 0, size |-> 0, n_chunks |-> 0,
     sizes |-> <<>>]

IdleSeq ==
    [pc |-> "idle", returns_array |-> <<>>, column_map |-> <<>>, combinations |-> <<>>,
     loop |-> NewLoop(<<>>, 0), out |-> NoOutcome]
IdlePar ==
    [returns_array |-> <<>>, column_map |-> <<>>, combinations |-> <<>>,
     chunk_size |-> 0, chunks |-> <<>>, next |-> 1, results |-> <<>>, out |-> NoOutcome]

InitRun(shape, market, rows, sd, nw, cs) ==
    /\ n_stocks = shape[1]
    /\ n_select = shape[2]
    /\ n_simulations = shape[3]
    /\ prices = PriceFrame(market, shape[1], rows)
    /\ seed = sd
    /\ n_workers = nw
    /\ chunk_size = cs
    /\ seq = IdleSeq
    /\ dist = "Idle"
    /\ par = IdlePar
    /\ workers = <<>>
    /\ chunk_results = <<>>
    /\ evals = [p \in Paths |->
                 [c \in { get_stock_combinations(AllStocks(shape[1]), shape[2])[j] :
                          j \in 1..Len(get_stock_combinations(AllStocks(shape[1]), shape[2])) }
                  |-> NoEval]]
    /\ plan = NoPlan

\* The large batches are tried on one market, one seed and one given chunk
\* size only; the runs of seven stocks on one market and two seeds only; a
\* frame of one row, which holds no return, on one market only.
InScope(shape, market, rows, sd, cs) ==
    /\ shape[3] >= 100 => (market = "mixed" /\ rows = 3 /\ sd = 0 /\ cs = 3)
    /\ shape[1] >= 7 => (market = "mixed" /\ rows = 3 /\ sd \in {0, 2})
    /\ rows < 2 => market = "flat"

Init ==
    \E shape \in Shapes, market \in Markets, rows \in RowCounts, sd \in Seeds,
       nw \in 1..MaxWorkers, cs \in ChunkSizes :
        /\ InScope(shape, market, rows, sd, cs)
        /\ InitRun(shape, market, rows, sd, nw, cs)

(***************************************************************************)
(* optimize_portfolio_sequential                                           *)
(***************************************************************************)
inputs == <<prices, n_stocks, n_select, n_simulations, n_workers, chunk_size, seed>>

Record(ev_log, path, combination, r) ==
    IF r.kind = "retry" THEN ev_log
    ELSE [ev_log EXCEPT ![path][combination] =
            [count |-> @.count + 1, kind |-> r.kind, rec |-> r.rec]]

\* portfolio_optimizer.py:124-134
SeqStart ==
    /\ seq.pc = "idle"
    /\ \E combinations \in { get_stock_combinations(AllStocks(n_stocks), n_select) } :
           seq' = [pc |-> "loop",
                   returns_array |-> calculate_daily_returns(prices),
                   column_map |-> [s \in 1..n_stocks |-> s],
                   combinations |-> combinations,
                   loop |-> NewLoop(combinations, seed),
                   out |-> NoOutcome]
    /\ UNCHANGED <<inputs, dist, par, workers, chunk_results, evals, plan>>

\* portfolio_optimizer.py:136-147, one frame of the sampler at a time
SeqEvaluate ==
    /\ seq.pc = "loop"
    /\ seq.loop.todo # <<>>
    /\ \E r \in { LoopStep(seq.loop, seq.returns_array, seq.column_map, n_simulations) } :
           /\ seq' = [seq EXCEPT !.loop = LoopBody(@, r)]
           /\ evals' = Record(evals, "seq", Head(seq.loop.todo), r)
    /\ UNCHANGED <<inputs, dist, par, workers, chunk_results, plan>>

\* portfolio_optimizer.py:149-159
SeqReduce ==
    /\ seq.pc = "loop"
    /\ seq.loop.todo = <<>>
    /\ \E results \in { seq.loop.results } :
           seq' = [seq EXCEPT !.pc = "done", !.out = Reduce(results)]
    /\ UNCHANGED <<inputs, dist, par, workers, chunk_results, evals, plan>>

(***************************************************************************)
(* optimize_portfolio                                                      *)
(***************************************************************************)
\* A worker process as the Pool starts it: a copy of the parent, generator
\* included (fork).
NewWorker == [pc |-> "idle", chunk |-> 0, loop |-> NewLoop(<<>>, seed), tasks |-> 0]

\* portfolio_optimizer.py:69-100 up to the dispatch of pool.map
Dispatch ==
    /\ seq.pc = "done"
    /\ dist = "Idle"
    /\ \E combinations \in { get_stock_combinations(AllStocks(n_stocks), n_select) } :
       \E size \in { ChunkSize(chunk_size, Len(combinations), n_workers) } :
       \E n_chunks \in { NChunks(Len(combinations), size) } :
       \E chunks \in { ArraySplit(combinations, n_chunks) } :
           /\ par' = [returns_array |-> calculate_daily_returns(prices),
                      column_map |-> [s \in 1..n_stocks |-> s],
                      combinations |-> combinations,
                      chunk_size |-> size,
                      chunks |-> chunks,
                      next |-> 1,
                      results |-> <<>>,
                      out |-> NoOutcome]
           /\ chunk_results' = [c \in 1..Len(chunks) |-> [done |-> FALSE, results |-> <<>>]]
    /\ workers' = [w \in 1..n_workers |-> NewWorker]
    /\ dist' = "Dispatched"
    /\ UNCHANGED <<inputs, seq, evals, plan>>

\* A free worker takes the next chunk of the task queue.
WorkerTake(w) ==
    /\ dist \in {"Dispatched", "Collecting"}
    /\ workers[w].pc = "idle"
    /\ par.next <= Len(par.chunks)
    /\ workers' = [workers EXCEPT ![w].pc = "busy", ![w].chunk = par.next,
                        ![w].loop = NewLoop(par.chunks[par.next], workers[w].loop.rng)]
    /\ par' = [par EXCEPT !.next = @ + 1]
    /\ UNCHANGED <<inputs, seq, dist, chunk_results, evals, plan>>

\* portfolio_optimizer.py:32-55, the task a worker runs for a chunk: the loop of
\* lines 39-50 to its end, from the loop state ev and the log of evaluations.
RECURSIVE process_combinations_chunk(_, _, _, _, _)
process_combinations_chunk(ev, ev_log, returns_array, column_map, n_sims) ==
    IF ev.todo = <<>> THEN [loop |-> ev, evals |-> ev_log]
    ELSE CHOOSE done \in
             { process_combinations_chunk(LoopBody(ev, r),
                                          Record(ev_log, "par", Head(ev.todo), r),
                                          returns_array, column_map, n_sims) :
                 r \in { LoopStep(ev, returns_array, column_map, n_sims) } } :
             TRUE

\* A worker runs its task and the chunk's list goes back to pool.map's slot for it
\* (portfolio_optimizer.py:52); a worker process shares nothing with the others
\* while it runs.  A worker that has done maxtasksperchild tasks is replaced by a
\* new one.
WorkerRun(w) ==
    /\ workers[w].pc = "busy"
    /\ \E done \in { process_combinations_chunk(workers[w].loop, evals, par.returns_array,
                                                 par.column_map, n_simulations) } :
           /\ chunk_results' = [chunk_results EXCEPT ![workers[w].chunk] =
                                   [done |-> TRUE, results |-> done.loop.results]]
           /\ workers' = [workers EXCEPT ![w] =
                            IF @.tasks + 1 >= MaxTasksPerChild THEN NewWorker
                            ELSE [@ EXCEPT !.pc = "idle", !.tasks = @ + 1,
                                           !.loop = done.loop]]
           /\ evals' = done.evals
    /\ dist' = "Collecting"
    /\ UNCHANGED <<inputs, seq, par, plan>>

\* A reduction that starts on the lists delivered so far.
ParReduceEarly ==
    /\ dist = "Collecting"
    /\ \E results \in { Flatten([c \in 1..Len(chunk_results) |-> chunk_results[c].results]) } :
           par' = [par EXCEPT !.results = results, !.out = Reduce(results)]
    /\ dist' = "Reduced"
    /\ UNCHANGED <<inputs, seq, workers, chunk_results, evals, plan>>

\* portfolio_optimizer.py:100-109: pool.map returns once every chunk has its list
ParReduce ==
    /\ dist = "Collecting"
    /\ \A c \in 1..Len(chunk_results) : chunk_results[c].done
    /\ \E results \in { Flatten([c \in 1..Len(chunk_results) |-> chunk_results[c].results]) } :
           par' = [par EXCEPT !.results = results, !.out = Reduce(results)]
    /\ dist' = "Reduced"
    /\ UNCHANGED <<inputs, seq, workers, chunk_results, evals, plan>>

\* portfolio_optimizer.py:111-115
ParReturn ==
    /\ dist = "Reduced"
    /\ dist' = "Done"
    /\ UNCHANGED <<inputs, seq, par, workers, chunk_results, evals, plan>>

Next ==
    \/ SeqStart
    \/ SeqEvaluate
    \/ SeqReduce
    \/ Dispatch
    \/ \E w \in DOMAIN workers : WorkerTake(w)
    \/ \E w \in DOMAIN workers : WorkerRun(w)
    \/ ParReduce
    \/ ParReturn

Spec == Init /\ [][Next]_vars

\* The scheduling: the sequential path runs statement after statement, and a
\* worker process that has work is eventually run by the operating system.
Fairness ==
    /\ WF_vars(SeqStart \/ SeqEvaluate \/ SeqReduce \/ Dispatch \/ ParReduce \/ ParReturn)
    /\ \A w \in 1..MaxWorkers :
         WF_vars(w \in DOMAIN workers /\ (WorkerTake(w) \/ WorkerRun(w)))

\* The runs whose termination is in question (too few assets for the cap, more
\* simulations than candidates), one with no combination and one that samples.
FairShapes == { <<3, 2, 2>>, <<4, 6, 1>>, <<5, 5, 1>>, <<6, 6, MaxTargetWeights + 1>> }
InitFair ==
    \E shape \in FairShapes, sd \in Seeds, nw \in 1..MaxWorkers, cs \in ChunkSizes :
        /\ InScope(shape, "mixed", 3, sd, cs)
        /\ InitRun(shape, "mixed", 3, sd, nw, cs)

FairSpec == InitFair /\ [][Next]_vars /\ Fairness

(***************************************************************************)
(* Chunk planning on its own (portfolio_optimizer.py:80-94), for totals    *)
(* too large to enumerate the combinations of                              *)
(***************************************************************************)
MaxPlanTotal == 40
MaxPlanWorkers == 8
PlanTotals == (0..MaxPlanTotal) \cup {999, 1000, 1001, 7999, 8000, 8001, 142506}
PlanChunkSizes == {0, 1, 3, 250, 1000}

InitChunk ==
    /\ n_stocks = 0
    /\ n_select = 0
    /\ n_simulations = 1
    /\ prices = <<>>
    /\ seed = 0
    /\ n_workers = 1
    /\ chunk_size = 0
    /\ seq = IdleSeq
    /\ dist = "Idle"
    /\ par = IdlePar
    /\ workers = <<>>
    /\ chunk_results = <<>>
    /\ evals = [p \in Paths |-> <<>>]
    /\ \E total \in PlanTotals, nw \in 1..MaxPlanWorkers, given \in PlanChunkSizes :
         plan = [NoPlan EXCEPT !.total = total, !.nw = nw, !.given = given]

\* portfolio_optimizer.py:80-94 on a list of plan.total combinations
PlanChunks ==
    /\ ~plan.done
    /\ LET size == ChunkSize(plan.given, plan.total, plan.nw)
           n_chunks == NChunks(plan.total, size)
       IN  plan' = [plan EXCEPT !.done = TRUE, !.size = size, !.n_chunks = n_chunks,
                                !.sizes = ArraySplitSizes(plan.total, n_chunks)]
    /\ UNCHANGED <<inputs, seq, dist, par, workers, chunk_results, evals>>

SpecChunk == InitChunk /\ [][PlanChunks]_vars

(***************************************************************************)
(* Properties                                                              *)
(***************************************************************************)
Finished(path) == IF path = "seq" THEN seq.pc = "done" ELSE dist \in {"Reduced", "Done"}
OutOf(path) == IF path = "seq" THEN seq.out ELSE par.out
\* The flattened list of collected records the reduction works on.
Collected(path) == IF path = "seq" THEN seq.loop.results ELSE par.results
Enumerated(path) == IF path = "seq" THEN seq.combinations ELSE par.combinations
Loops == {seq.loop} \cup {workers[w].loop : w \in DOMAIN workers}

C2_FailureIsolated ==
    \A path \in Paths :
        Finished(path) =>
            LET gave == SelectSeq(Enumerated(path),
                                  LAMBDA c : evals[path][c].kind = "record")
            IN  /\ \A j \in 1..Len(Enumerated(path)) :
                     evals[path][Enumerated(path)[j]].count = 1
                /\ Collected(path) = [j \in 1..Len(gave) |-> evals[path][gave[j]].rec]
                /\ OutOf(path).kind \in {"record", "ValueError"}
C2_Witness ==
    /\ dist = "Done"
    /\ par.out.kind = "record"
    /\ \E c \in 1..Len(par.chunks) :
         \E i, j \in 1..Len(par.chunks[c]) :
            /\ i < j
            /\ evals["par"][par.chunks[c][i]].kind = "none"
            /\ evals["par"][par.chunks[c][j]].kind = "record"
            /\ \E k \in 1..Len(par.results) :
                 par.results[k] = evals["par"][par.chunks[c][j]].rec

\* C3: a path ends in the fatal error exactly when no evaluation gave a record
\* (no combination enumerated included), and returns a record exactly when one did.
C3_EmptyIsFatal ==
    \A path \in Paths :
        Finished(path) =>
            LET some == \E c \in DOMAIN evals[path] : evals[path][c].kind = "record"
            IN  /\ OutOf(path).kind = "ValueError" <=> ~some
                /\ OutOf(path).kind = "record" <=> some
C3_Witness ==
    /\ dist = "Done"
    /\ Len(par.combinations) > 1
    /\ \A path \in Paths : \A c \in DOMAIN evals[path] : evals[path][c].kind = "none"
    /\ seq.out.kind = "ValueError"
    /\ par.out.kind = "ValueError"

\* Every stock's return is the same on every day (at least two days).
ZeroVariance ==
    LET R == calculate_daily_returns(prices)
    IN  Len(R) >= 2 /\ \A i \in 1..n_stocks : CovNum(R, i, i) = 0

\* C4: no record with a NaN or infinite Sharpe ratio is returned by the
\* evaluator or enters the reduction, and 3 stocks of zero variance with
\* n_select = 2 end with the no-valid-portfolio error.
C4_NoNonFiniteRecord ==
    /\ \A path \in Paths : \A c \in DOMAIN evals[path] :
         evals[path][c].kind = "record" => IsFinite(evals[path][c].rec.sharpe_ratio)
    /\ \A path \in Paths :
         Finished(path) =>
            /\ \A j \in 1..Len(Collected(path)) :
                 IsFinite(Collected(path)[j].sharpe_ratio)
            /\ (ZeroVariance /\ n_stocks = 3 /\ n_select = 2) =>
                 OutOf(path).kind = "ValueError"

ScenarioB == n_stocks = 4 /\ n_select = 2 /\ n_simulations = 100
\* Some stock of the combination has a return that varies.
NonDegenerate(c) ==
    LET R == calculate_daily_returns(prices)
    IN  Len(R) >= 2 /\ \E j \in 1..Len(c) : CovNum(R, c[j], c[j]) > 0

\* C5: 4 stocks, n_select = 2, n_simulations = 100: 6 combinations, a record for
\* each combination that is not degenerate, and the max-Sharpe record returned.
C5_ScenarioBRecords ==
    ScenarioB =>
        \A path \in Paths :
            Finished(path) =>
                /\ Len(Enumerated(path)) = 6
                /\ \A c \in DOMAIN evals[path] :
                     NonDegenerate(c) => evals[path][c].kind = "record"
                /\ (\E c \in DOMAIN evals[path] : NonDegenerate(c)) =>
                     OutOf(path).kind = "record"
\* C5, amended: 4 stocks, n_select = 2, n_simulations = 100: 6 combinations, each
\* evaluated once to a null result (no two weights that sum to 1 are both within
\* the cap), and the run ends with the no-valid-portfolio error.
C5_ScenarioBNoRecord ==
    ScenarioB =>
        \A path \in Paths :
            Finished(path) =>
                /\ Len(Enumerated(path)) = 6
                /\ Cardinality(DOMAIN evals[path]) = 6
                /\ \A c \in DOMAIN evals[path] :
                     evals[path][c].kind = "none" /\ evals[path][c].count = 1
                /\ OutOf(path).kind = "ValueError"
C5_Witness ==
    /\ ScenarioB
    /\ dist = "Done"
    /\ Len(par.combinations) = 6
    /\ \E c \in DOMAIN evals["par"] : NonDegenerate(c) /\ evals["par"][c].count = 1
    /\ par.out.kind = "ValueError"
    /\ seq.out.kind = "ValueError"

\* The candidate rows of the attempt a call returned from, and those within the cap.
Candidates(call) ==
    [j \in 1..(IF 3 * call.n_sims <= 10000 THEN 3 * call.n_sims ELSE 10000) |->
        RawRow(RngOut((call.rng + j - 1) % RngPeriod), call.n_assets)]
Survivors(call) ==
    LET cand == Candidates(call)
    IN  { j \in 1..Len(cand) :
            /\ SumTo(cand[j], call.n_assets) > 0
            /\ \A i \in 1..call.n_assets : 5 * cand[j][i] <= SumTo(cand[j], call.n_assets) }

\* C6: a batch that generate_valid_weights returns has n_simulations rows of
\* n_assets entries, each entry >= 0 and <= 0.2, each row of sum 1, and its m-th
\* row is the m-th candidate within the cap of the final attempt, normalised.
C6_ValidBatch ==
    \A loop \in Loops :
        LET call == loop.call
        IN  call.n_sims > 0 =>
              /\ call.n_assets >= 1
              /\ Len(call.batch) = call.n_sims
              /\ \A m \in 1..Len(call.batch) :
                   LET w == call.batch[m]
                   IN  /\ Len(w.num) = call.n_assets
                       /\ w.den > 0
                       /\ \A i \in 1..Len(w.num) : w.num[i] >= 0 /\ 5 * w.num[i] <= w.den
                       /\ SumTo(w.num, Len(w.num)) = w.den
                       /\ \E j \in Survivors(call) :
                            /\ Cardinality({x \in Survivors(call) : x <= j}) = m
                            /\ w.num = Candidates(call)[j]
C6_Witness ==
    \E loop \in Loops :
        /\ loop.call.n_sims >= 1
        /\ Cardinality(Survivors(loop.call)) > loop.call.n_sims
        /\ 1 \notin Survivors(loop.call)
        /\ loop.results # <<>>

\* No number of attempts gives n_simulations rows within the cap.
CannotSample == n_select < 5 \/ n_simulations > 10000

\* C7: when sampling cannot reach n_simulations valid rows, every evaluation
\* still ends, with a null result, and the run goes through every combination
\* to its end.
C7_SamplingFailureEnds ==
    CannotSample ~>
        /\ dist = "Done"
        /\ \A path \in Paths : \A c \in DOMAIN evals[path] :
             evals[path][c].kind = "none" /\ evals[path][c].count = 1
C7_Witness ==
    /\ CannotSample
    /\ seq.pc = "loop"
    /\ seq.loop.todo # <<>>
    /\ seq.loop.depth = RecursionLimit
    /\ \E c \in DOMAIN evals["seq"] :
         evals["seq"][c].kind = "none" /\ evals["seq"][c].count = 1

C9_EmptyInputRejected ==
    Len(prices) < 2 =>
        /\ \A path \in Paths : \A c \in DOMAIN evals[path] : evals[path][c].count = 0
        /\ \A path \in Paths : OutOf(path).kind # "record"

\* C10: without chunk_size, chunkSize = min(250, max(1, total // (nWorkers * 4)));
\* for any chunk_size >= 1, nChunks = max(1, total // chunkSize) chunks are made;
\* total = 142506 and nWorkers = 8 give chunkSize = 250 and nChunks = 570.
C10_ChunkPlan ==
    plan.done =>
        LET floor == plan.total \div (plan.nw * 4)
            auto == IF floor < 1 THEN 1 ELSE IF floor > 250 THEN 250 ELSE floor
            quot == plan.total \div plan.size
        IN  /\ plan.given = 0 => plan.size = auto
            /\ plan.given >= 1 => plan.size = plan.given
            /\ plan.n_chunks = (IF quot < 1 THEN 1 ELSE quot)
            /\ Len(plan.sizes) = plan.n_chunks
            /\ (plan.total = 142506 /\ plan.nw = 8 /\ plan.given = 0) =>
                 (plan.size = 250 /\ plan.n_chunks = 570)
C10_Witness ==
    /\ plan.done
    /\ plan.total = 142506 /\ plan.nw = 8 /\ plan.given = 0
    /\ plan.size = 250
    /\ Len(plan.sizes) = 570

\* The number of k-subsets of n elements.
RECURSIVE Binomial(_, _)
Binomial(n, k) ==
    IF k = 0 THEN 1
    ELSE IF n < k THEN 0
    ELSE Binomial(n - 1, k - 1) + Binomial(n - 1, k)
\* The stocks of a combination, as a set.
Symbols(c) == { c[j] : j \in 1..Len(c) }
Dispatched == dist # "Idle"

\* C11: the chunks dispatched, concatenated in order, are the enumerated list,
\* which holds the C(n, k) distinct subsets of size k; the sizes of two chunks
\* differ by at most one; and at the reduction each subset has been evaluated
\* exactly once.
C11_ChunksPartition ==
    Dispatched =>
        /\ Flatten(par.chunks) = par.combinations
        /\ Len(par.combinations) = Binomial(n_stocks, n_select)
        /\ \A i \in 1..Len(par.combinations) :
             /\ Cardinality(Symbols(par.combinations[i])) = n_select
             /\ Symbols(par.combinations[i]) \subseteq 1..n_stocks
             /\ \A j \in 1..(i - 1) :
                  Symbols(par.combinations[j]) # Symbols(par.combinations[i])
        /\ \A a, b \in 1..Len(par.chunks) :
             Len(par.chunks[a]) - Len(par.chunks[b]) <= 1
        /\ Finished("par") =>
             \A i \in 1..Len(par.combinations) :
                evals["par"][par.combinations[i]].count = 1
C11_Witness ==
    /\ dist = "Done"
    /\ Len(par.combinations) = 7
    /\ Len(par.chunks) = 2
    /\ Len(par.chunks[1]) = 4
    /\ Len(par.chunks[2]) = 3
    /\ \A w \in DOMAIN workers : workers[w].tasks = 1

\* The distributor's states, in order.
DistStates == <<"Idle", "Dispatched", "Collecting", "Reduced", "Done">>
Rank(d) == CHOOSE i \in 1..Len(DistStates) : DistStates[i] = d
\* The records the parallel path's evaluations gave, in enumeration order.
RecordsInOrder ==
    LET gave == SelectSeq(par.combinations, LAMBDA c : evals["par"][c].kind = "record")
    IN  [j \in 1..Len(gave) |-> evals["par"][gave[j]].rec]

\* C12: the distributor goes Idle, Dispatched, Collecting, Reduced, Done, one
\* state at a time; the reduction starts only when every chunk has delivered
\* its list; and the reduced outcome is the reduction of the combinations'
\* records in enumeration order, whatever worker ran which chunk and in
\* whatever order the chunks were completed.
C12_DistributorOrder ==
    /\ [][dist' # dist => Rank(dist') = Rank(dist) + 1]_vars
    /\ [][(dist' = "Reduced" /\ dist # "Reduced") =>
            \A c \in 1..Len(chunk_results) : chunk_results[c].done]_vars
    /\ [](dist \in {"Reduced", "Done"} =>
            /\ \A c \in 1..Len(chunk_results) : chunk_results[c].done
            /\ Len(chunk_results) = Len(par.chunks)
            /\ par.results = RecordsInOrder
            /\ par.out = Reduce(RecordsInOrder))
C12_Witness ==
    /\ dist = "Done"
    /\ par.out.kind = "record"
    /\ Len(par.chunks) >= 3
    /\ Len(workers) = 2
    /\ workers[2].tasks = 1
    /\ workers[2].chunk = 1
    /\ workers[1].tasks >= 2
    /\ \E i, j \in 1..Len(par.results) :
         par.results[i].sharpe_ratio # par.results[j].sharpe_ratio

=============================================================================
